---- MODULE Spec2Model ----
(***************************************************************************)
(* Model of api/integrations/siem_connector.py: the SIEM connectors (the   *)
(* four vendor adapters and the generic base class), the connector factory *)
(* and the CTISIEMIntegration orchestrator with its name -> connector      *)
(* registry and its concurrent broadcast.                                  *)
(*                                                                         *)
(* The orchestrator runs on one asyncio event loop.  A coroutine runs      *)
(* without interruption between two awaits, so every action below is the   *)
(* code between two suspension points:                                     *)
(*   - add_siem_connector / remove_siem_connector have no await;           *)
(*   - broadcast_intelligence runs from its entry to `await gather` in one *)
(*     step (resolve the targets, create the tasks), is suspended while    *)
(*     the tasks run, and runs from the wake-up to its return in one step; *)
(*   - a task (_safe_push_intelligence around the adapter's                *)
(*     push_intelligence) has no suspension point: the adapters call the   *)
(*     blocking requests API.  A push is started in one step and completes *)
(*     in the next; the thread of the event loop is inside the blocking    *)
(*     call in between, so nothing else is scheduled (loop_busy);          *)
(*   - test_all_connections awaits test_connection, which calls the        *)
(*     blocking requests API too: the whole call holds the thread;         *)
(*   - get_connector_status is a plain method.                             *)
(* Other coroutines of the caller (registry mutations, another broadcast)  *)
(* are scheduled between these steps.                                      *)
(*                                                                         *)
(* The payload side of the adapters (the severity and confidence mappers,  *)
(* the Elasticsearch document id) and the test data generator of           *)
(* tests/python/cti_platform_tester.py have specifications of their own    *)
(* further down.                                                           *)
(***************************************************************************)
EXTENDS Integers, Sequences, FiniteSets, TLC

VARIABLES
    connectors,   \* CTISIEMIntegration.connectors: the dict, as the sequence
                  \* of its items [name, connector] in insertion order
    calls,        \* the activations of broadcast_intelligence, by call id
    raised,       \* the exception the last add / remove call raised, "" if none
    probes,       \* the activation of test_all_connections
    status,       \* the activation of get_connector_status
    intelligence_data,  \* the record handed to an adapter's push_intelligence
    now,          \* the clock datetime.now() / datetime.utcnow() reads
    sent,         \* the requests the adapters have issued, oldest first
    built,        \* the last call of create_siem_connector and what it returned
    generated,    \* what ThreatDataGenerator.generate_threat_intelligence returned
    tester        \* the CTIPlatformTester of the test suite

vars == <<connectors, calls, raised, probes, status, intelligence_data, now, sent,
          built, generated, tester>>

\* The state of the adapters' payload side and of the test data generator.
adapter_vars == <<intelligence_data, now, sent, built>>
tester_vars == <<generated, tester>>

(***************************************************************************)
(* Bounds of the model.                                                    *)
(***************************************************************************)
Names == {"a", "b"}          \* connector names the caller uses
MaxTargetLen == 2            \* longest target_siems list passed to a broadcast
CallIds == {"main"}          \* activations of broadcast_intelligence
TwoCallIds == {"main", "second"}   \* two activations on one orchestrator

(***************************************************************************)
(* SIEMType, SIEMConfig                                                    *)
(***************************************************************************)
SIEMType == {"splunk", "qradar", "arcsight", "sentinel", "elastic", "generic"}

DefaultTimeout == 30
DefaultMaxRetries == 3

\* The max_retries values the caller configures: the default and "no retry".
MaxRetriesChoices == {0, DefaultMaxRetries}

SIEMConfig(siem_type, max_retries) ==
    [siem_type |-> siem_type, verify_ssl |-> TRUE,
     timeout |-> DefaultTimeout, max_retries |-> max_retries]

Configs == {SIEMConfig(t, r) : t \in SIEMType, r \in MaxRetriesChoices}

(***************************************************************************)
(* create_siem_connector: the class looked up in connector_map, the base   *)
(* class SIEMConnector for a type without an entry.                        *)
(***************************************************************************)
connector_map ==
    [t \in {"splunk", "qradar", "sentinel", "elastic", "generic"} |->
        CASE t = "splunk"   -> "SplunkConnector"
          [] t = "qradar"   -> "QRadarConnector"
          [] t = "sentinel" -> "SentinelConnector"
          [] t = "elastic"  -> "ElasticConnector"
          [] t = "generic"  -> "SIEMConnector"]

\* Variant of create_siem_connector whose default is the Splunk adapter.
create_siem_connector_default_splunk(siem_type, config) ==
    [class  |-> IF siem_type \in DOMAIN connector_map
                THEN connector_map[siem_type] ELSE "SplunkConnector",
     config |-> config]


create_siem_connector(siem_type, config) ==
    [class  |-> IF siem_type \in DOMAIN connector_map
                THEN connector_map[siem_type] ELSE "SIEMConnector",
     config |-> config]

(***************************************************************************)
(* What one push meets: the payload construction may raise inside the      *)
(* adapter's try block (a field of the wrong type, a shared key that is    *)
(* not base64), the HTTP call may raise (timeout, transport error), or it  *)
(* answers with a status code.                                             *)
(***************************************************************************)
StatusCodes == {200, 201, 500}
TransportFaults == {"Timeout", "ConnectionError"}

NoResponse == [fault |-> "none", status_code |-> 0]
Answer(code) == [fault |-> "", status_code |-> code]
Fault(f) == [fault |-> f, status_code |-> 0]

Responses == {Answer(s) : s \in StatusCodes} \cup {Fault(f) : f \in TransportFaults}

Encounters ==
    {[build_fault |-> TRUE, response |-> NoResponse]}
    \cup {[build_fault |-> FALSE, response |-> r] : r \in Responses}

(***************************************************************************)
(* Outcome of push_intelligence: a returned boolean or a raised exception; *)
(* http_calls counts the session.post / session.put calls it issued and    *)
(* response is the answer to that call.                                    *)
(***************************************************************************)
Return(v, n, r) == [exc |-> "", value |-> v, http_calls |-> n, response |-> r]
Raise(e, n, r) == [exc |-> e, value |-> FALSE, http_calls |-> n, response |-> r]

\* Variant of SplunkConnector.push_intelligence without the except clause:
\* an exception of the HTTP call leaves the method.
SplunkConnector_push_unguarded(met) ==
    IF met.build_fault THEN Return(FALSE, 0, NoResponse)
    ELSE IF met.response.fault # "" THEN Raise(met.response.fault, 1, met.response)
    ELSE IF met.response.status_code = 200 THEN Return(TRUE, 1, met.response)
    ELSE Return(FALSE, 1, met.response)

\* SplunkConnector: try: build the event, post it, True on 200;
\* except Exception: False.
SplunkConnector_push_intelligence(met) ==
    IF met.build_fault THEN Return(FALSE, 0, NoResponse)
    ELSE IF met.response.fault # "" THEN Return(FALSE, 1, met.response)
    ELSE IF met.response.status_code = 200 THEN Return(TRUE, 1, met.response)
    ELSE Return(FALSE, 1, met.response)

\* QRadarConnector: True on 200 or 201.
QRadarConnector_push_intelligence(met) ==
    IF met.build_fault THEN Return(FALSE, 0, NoResponse)
    ELSE IF met.response.fault # "" THEN Return(FALSE, 1, met.response)
    ELSE IF met.response.status_code \in {200, 201} THEN Return(TRUE, 1, met.response)
    ELSE Return(FALSE, 1, met.response)

\* Variant of SentinelConnector.push_intelligence that takes 201 as accepted.
SentinelConnector_push_accepting_201(met) ==
    IF met.build_fault THEN Return(FALSE, 0, NoResponse)
    ELSE IF met.response.fault # "" THEN Return(FALSE, 1, met.response)
    ELSE IF met.response.status_code \in {200, 201} THEN Return(TRUE, 1, met.response)
    ELSE Return(FALSE, 1, met.response)

\* SentinelConnector: the log, the signature and the post are all inside
\* the try block; True on 200.
SentinelConnector_push_intelligence(met) ==
    IF met.build_fault THEN Return(FALSE, 0, NoResponse)
    ELSE IF met.response.fault # "" THEN Return(FALSE, 1, met.response)
    ELSE IF met.response.status_code = 200 THEN Return(TRUE, 1, met.response)
    ELSE Return(FALSE, 1, met.response)

\* ElasticConnector: one put; True on 200 or 201.
ElasticConnector_push_intelligence(met) ==
    IF met.build_fault THEN Return(FALSE, 0, NoResponse)
    ELSE IF met.response.fault # "" THEN Return(FALSE, 1, met.response)
    ELSE IF met.response.status_code \in {200, 201} THEN Return(TRUE, 1, met.response)
    ELSE Return(FALSE, 1, met.response)

\* The base class: raise NotImplementedError, no HTTP call.
SIEMConnector_push_intelligence(met) == Raise("NotImplementedError", 0, NoResponse)

\* connector.push_intelligence(intelligence_data): dispatch on the class.
push_intelligence(connector, met) ==
    CASE connector.class = "SplunkConnector"   -> SplunkConnector_push_intelligence(met)
      [] connector.class = "QRadarConnector"   -> QRadarConnector_push_intelligence(met)
      [] connector.class = "SentinelConnector" -> SentinelConnector_push_intelligence(met)
      [] connector.class = "ElasticConnector"  -> ElasticConnector_push_intelligence(met)
      [] OTHER                                 -> SIEMConnector_push_intelligence(met)

\* Variant of _safe_push_intelligence that pushes again after a failure,
\* config.max_retries more times.
_safe_push_retrying(connector, met) ==
    LET pushed == push_intelligence(connector, met)
        failed == pushed.exc # "" \/ ~pushed.value
        n == IF failed THEN 1 + connector.config.max_retries ELSE 1
    IN  [exc |-> "", value |-> ~failed,
         pushes |-> n, http_calls |-> n * pushed.http_calls, pushed |-> pushed]

\* _safe_push_intelligence: try: return await connector.push_intelligence(..)
\* except Exception: return False.  The record keeps what the task did:
\* the number of push_intelligence calls and the outcome of the last one.
_safe_push_intelligence(connector, met) ==
    LET pushed == push_intelligence(connector, met)
    IN  [exc |-> "", value |-> IF pushed.exc # "" THEN FALSE ELSE pushed.value,
         pushes |-> 1, http_calls |-> pushed.http_calls, pushed |-> pushed]

(***************************************************************************)
(* SIEMConnector.test_connection, inherited by every adapter: GET          *)
(* <endpoint>/health inside try; status_code == 200; except Exception:     *)
(* False.  `response` is what the GET met.                                 *)
(***************************************************************************)
\* Variant of test_connection that takes every 2xx status as healthy.
test_connection_accepting_2xx(response) ==
    IF response.fault # "" THEN Return(FALSE, 1, response)
    ELSE Return(response.status_code \in {200, 201}, 1, response)

test_connection(response) ==
    IF response.fault # "" THEN Return(FALSE, 1, response)
    ELSE Return(response.status_code = 200, 1, response)

(***************************************************************************)
(* The registry: a Python dict, which keeps its items in insertion order.  *)
(***************************************************************************)
Item(name, connector) == [name |-> name, connector |-> connector]

keys(d) == {d[i].name : i \in 1..Len(d)}

\* Variant of d[name] = connector that adds an item whether or not the
\* name is a key already.
dict_setitem_appending(d, name, connector) == Append(d, Item(name, connector))

\* d[name] = connector: a known key keeps its place, a new key goes last.
dict_setitem(d, name, connector) ==
    IF name \in keys(d)
    THEN [i \in 1..Len(d) |->
            IF d[i].name = name THEN Item(name, connector) ELSE d[i]]
    ELSE Append(d, Item(name, connector))

\* del d[name]
dict_delitem(d, name) == SelectSeq(d, LAMBDA it : it.name # name)

add_siem_connector(d, name, connector) == dict_setitem(d, name, connector)

\* del d[name] raises KeyError for a name that is not a key.
del_raises(d, name) == name \notin keys(d)

remove_siem_connector(d, name) ==
    IF name \in keys(d) THEN dict_delitem(d, name) ELSE d

\* Variant of remove_siem_connector without the `if name in` test.
remove_siem_connector_exc_unguarded(d, name) ==
    IF del_raises(d, name) THEN "KeyError" ELSE ""

\* What remove_siem_connector raises: the del runs under `if name in
\* self.connectors`.
remove_siem_connector_exc(d, name) ==
    IF name \in keys(d) /\ del_raises(d, name) THEN "KeyError" ELSE ""

(***************************************************************************)
(* broadcast_intelligence(intelligence_data, target_siems)                 *)
(***************************************************************************)
\* target_siems: None, or a list of names.
None == [given |-> FALSE, names |-> <<>>]
List(names) == [given |-> TRUE, names |-> names]

SeqsUpTo(S, n) == UNION {[1..k -> S] : k \in 0..n}

TargetArgs == {None} \cup {List(s) : s \in SeqsUpTo(Names, MaxTargetLen)}

elems(s) == {s[i] : i \in 1..Len(s)}

\* `if target_siems:` is false for None and for the empty list.
truthy(target_siems) == target_siems.given /\ target_siems.names # <<>>

\* {k: v for k, v in self.connectors.items() if k in target_siems}
filtered(d, target_siems) ==
    SelectSeq(d, LAMBDA it : it.name \in elems(target_siems.names))

\* A task created for one target; `ran` is set when the task has run.
NotRun ==
    [exc |-> "pending", value |-> FALSE, pushes |-> 0, http_calls |-> 0,
     pushed |-> Raise("pending", 0, NoResponse)]

\* `started` is set when the event loop begins to run the task.
Task(item) ==
    [name |-> item.name, connector |-> item.connector,
     started |-> FALSE, done |-> FALSE, ran |-> NotRun]

create_tasks(target_connectors) ==
    [i \in 1..Len(target_connectors) |-> Task(target_connectors[i])]

Idle ==
    [pc |-> "idle", target_siems |-> None, aliased |-> FALSE,
     target_connectors |-> <<>>, tasks |-> <<>>, results |-> <<>>,
     exc |-> "", registered |-> {}]

\* Variant of the local target_connectors that filters the registry again
\* each time it is read instead of holding the comprehension's dict.
TargetConnectors_live(call) ==
    IF call.aliased THEN connectors ELSE filtered(connectors, call.target_siems)

\* The dict the local target_connectors refers to: self.connectors itself
\* when no filter was applied, the comprehension's new dict otherwise.
TargetConnectors(call) ==
    IF call.aliased THEN connectors ELSE call.target_connectors

\* Lines 368-383: resolve the targets, create one task per target, and
\* suspend in gather.  `registered` records the registry's names on entry.
Enter(d, target_siems) ==
    LET copy == truthy(target_siems)
        target_connectors == IF copy THEN filtered(d, target_siems) ELSE d
    IN  [pc |-> "gather", target_siems |-> target_siems, aliased |-> ~copy,
         target_connectors |-> IF copy THEN target_connectors ELSE <<>>,
         tasks |-> create_tasks(target_connectors), results |-> <<>>,
         exc |-> "", registered |-> keys(d)]

\* Variant of the wait that resumes the caller on the first finished task.
gather_first_done(tasks) == tasks = <<>> \/ \E i \in 1..Len(tasks) : tasks[i].done

\* asyncio.gather(*tasks, return_exceptions=True) resumes the caller when
\* every task is done, with the tasks' results in the order of the tasks.
gather_done(tasks) == \A i \in 1..Len(tasks) : tasks[i].done

push_results(tasks) == [i \in 1..Len(tasks) |-> tasks[i].ran]

\* Lines 388-392: an exception result counts as False.
compiled(result) == IF result.exc # "" THEN FALSE ELSE result.value

\* Variant of the compile loop that records False for a name without a
\* result instead of indexing past push_results.
Compile_padding(call, items) ==
    LET got == [i \in 1..Len(call.tasks) |-> call.tasks[i].ran]
    IN  [call EXCEPT !.pc = "returned",
                     !.results = [i \in 1..Len(items) |->
                                     [name |-> items[i].name,
                                      ok |-> IF i <= Len(got)
                                             THEN got[i].exc = "" /\ got[i].value
                                             ELSE FALSE]]]

\* Variant of the compile loop that reads the push results from one list
\* kept on the orchestrator, the list of the activation entered first.
Compile_shared(call, items) ==
    LET got == push_results(calls["main"].tasks)
    IN  IF Len(items) > Len(got)
        THEN [call EXCEPT !.pc = "raised", !.exc = "IndexError"]
        ELSE [call EXCEPT !.pc = "returned",
                          !.results = [i \in 1..Len(items) |->
                                          [name |-> items[i].name,
                                           ok |-> compiled(got[i])]]]

\* Lines 386-397: walk target_connectors.items() and read push_results[i].
\* An index past the results raises IndexError out of the call.
Compile(call, items) ==
    LET got == push_results(call.tasks)
    IN  IF Len(items) > Len(got)
        THEN [call EXCEPT !.pc = "raised", !.exc = "IndexError"]
        ELSE [call EXCEPT !.pc = "returned",
                          !.results = [i \in 1..Len(items) |->
                                          [name |-> items[i].name,
                                           ok |-> compiled(got[i])]]]

success_count(results) == Cardinality({i \in 1..Len(results) : results[i].ok})

(***************************************************************************)
(* test_all_connections                                                    *)
(***************************************************************************)
\* results and probed grow by one entry per probed connector; current is
\* the position in self.connectors.items() of the connector whose
\* test_connection is running, 0 when none is.
ProbesIdle == [pc |-> "idle", results |-> <<>>, probed |-> <<>>, current |-> 0]

\* try: results[name] = await connector.test_connection()
\* except Exception: results[name] = False
test_result(outcome) == IF outcome.exc # "" THEN FALSE ELSE outcome.value

\* Variant of the loop that stops after the first connector found down.
items_exhausted_or_down(p, d) ==
    Len(p.results) >= Len(d) \/ \E i \in 1..Len(p.results) : ~p.results[i].ok

\* The for loop over self.connectors.items() has no item left.
items_exhausted(p, d) == Len(p.results) >= Len(d)

(***************************************************************************)
(* get_connector_status: for each registered name the projection of the    *)
(* connector's config (the endpoint, a constant string, is left out).      *)
(***************************************************************************)
StatusIdle == [pc |-> "idle", value |-> <<>>]

get_connector_status(d) ==
    [i \in 1..Len(d) |->
        [name |-> d[i].name,
         status |-> [siem_type  |-> d[i].connector.config.siem_type,
                     verify_ssl |-> d[i].connector.config.verify_ssl,
                     timeout    |-> d[i].connector.config.timeout]]]

(***************************************************************************)
(* Actions                                                                 *)
(***************************************************************************)
\* The call has returned a map or raised.
Ended(call) == call.pc \in {"returned", "raised"}

AllIdle == \A c \in DOMAIN calls : calls[c].pc = "idle"

\* A task whose push has started and not completed.
in_flight(t) == t.started /\ ~t.done

\* The thread of the event loop is inside a blocking call, or inside a
\* call that returns to its caller without a suspension point: no other
\* coroutine is scheduled.
loop_busy ==
    \/ \E c \in DOMAIN calls :
          \E i \in 1..Len(calls[c].tasks) : in_flight(calls[c].tasks[i])
    \/ probes.pc # "idle"
    \/ status.pc # "idle"

AddSiemConnector(name, connector) ==
    /\ ~loop_busy
    /\ connectors' = add_siem_connector(connectors, name, connector)
    /\ raised' = ""
    /\ UNCHANGED <<calls, probes, status, adapter_vars, tester_vars>>

RemoveSiemConnector(name) ==
    /\ ~loop_busy
    /\ connectors' = remove_siem_connector(connectors, name)
    /\ raised' = remove_siem_connector_exc(connectors, name)
    /\ UNCHANGED <<calls, probes, status, adapter_vars, tester_vars>>

\* With no task, gather returns a completed future and the await does not
\* suspend: the call runs to its return in the same step.
BroadcastCall(c, target_siems) ==
    /\ ~loop_busy
    /\ calls[c].pc = "idle"
    /\ LET entered == Enter(connectors, target_siems)
       IN  calls' = [calls EXCEPT ![c] =
                IF entered.tasks = <<>>
                THEN Compile(entered, IF entered.aliased THEN connectors
                                      ELSE entered.target_connectors)
                ELSE entered]
    /\ UNCHANGED <<connectors, probes, status, raised, adapter_vars, tester_vars>>

\* The event loop begins to run a task: _safe_push_intelligence enters the
\* adapter's push_intelligence, which goes into the blocking session.post /
\* session.put.
StartTask(c, i) ==
    /\ ~loop_busy
    /\ calls[c].pc = "gather"
    /\ i \in 1..Len(calls[c].tasks)
    /\ ~calls[c].tasks[i].started
    /\ calls' = [calls EXCEPT ![c].tasks[i].started = TRUE]
    /\ UNCHANGED <<connectors, probes, status, raised, adapter_vars, tester_vars>>

\* The running task completes: _safe_push_intelligence around the
\* adapter's push.
RunTask(c, i, met) ==
    /\ calls[c].pc = "gather"
    /\ i \in 1..Len(calls[c].tasks)
    /\ in_flight(calls[c].tasks[i])
    /\ LET t == calls[c].tasks[i]
       IN  calls' = [calls EXCEPT ![c].tasks[i] =
                [t EXCEPT !.done = TRUE,
                          !.ran = _safe_push_intelligence(t.connector, met)]]
    /\ UNCHANGED <<connectors, probes, status, raised, adapter_vars, tester_vars>>

BroadcastResume(c) ==
    /\ ~loop_busy
    /\ calls[c].pc = "gather"
    /\ gather_done(calls[c].tasks)
    /\ calls' = [calls EXCEPT ![c] = Compile(calls[c], TargetConnectors(calls[c]))]
    /\ UNCHANGED <<connectors, probes, status, raised, adapter_vars, tester_vars>>

\* The caller has consumed the result map (or the exception).
BroadcastEnd(c) ==
    /\ ~loop_busy
    /\ calls[c].pc \in {"returned", "raised"}
    /\ calls' = [calls EXCEPT ![c] = Idle]
    /\ UNCHANGED <<connectors, probes, status, raised, adapter_vars, tester_vars>>

\* test_all_connections is entered: results = {}.  The caller probes
\* between two broadcasts.
TestAllCall ==
    /\ ~loop_busy
    /\ AllIdle
    /\ probes' = [ProbesIdle EXCEPT !.pc = "loop"]
    /\ UNCHANGED <<connectors, calls, status, raised, adapter_vars, tester_vars>>

\* Variant of TestAllStart that launches the probe of any connector not yet
\* probed, whether or not another probe is running.
TestAllStart_any_order ==
    /\ probes.pc = "loop"
    /\ \E i \in 1..Len(connectors) :
          /\ i > Len(probes.results)
          /\ i # probes.current
          /\ probes' = [probes EXCEPT !.current = i]
    /\ UNCHANGED <<connectors, calls, status, raised, adapter_vars, tester_vars>>

\* The loop takes the next item and enters its test_connection.
TestAllStart ==
    /\ probes.pc = "loop"
    /\ probes.current = 0
    /\ ~items_exhausted(probes, connectors)
    /\ probes' = [probes EXCEPT !.current = Len(probes.results) + 1]
    /\ UNCHANGED <<connectors, calls, status, raised, adapter_vars, tester_vars>>

\* Variant of TestAllFinish that drops from the registry a connector found
\* down.
TestAllFinish_evicting(response) ==
    /\ probes.pc = "loop"
    /\ probes.current # 0
    /\ LET item == connectors[probes.current]
           outcome == test_connection(response)
       IN  /\ probes' = [probes EXCEPT
                !.results = Append(@, [name |-> item.name, ok |-> test_result(outcome)]),
                !.probed = Append(@, [name |-> item.name, outcome |-> outcome]),
                !.current = 0]
           /\ connectors' = IF test_result(outcome) THEN connectors
                            ELSE dict_delitem(connectors, item.name)
    /\ UNCHANGED <<calls, status, raised, adapter_vars, tester_vars>>

\* The running test_connection returns and its result is stored under the
\* connector's name.
TestAllFinish(response) ==
    /\ probes.pc = "loop"
    /\ probes.current # 0
    /\ LET item == connectors[probes.current]
           outcome == test_connection(response)
       IN  probes' = [probes EXCEPT
                !.results = Append(@, [name |-> item.name, ok |-> test_result(outcome)]),
                !.probed = Append(@, [name |-> item.name, outcome |-> outcome]),
                !.current = 0]
    /\ UNCHANGED <<connectors, calls, status, raised, adapter_vars, tester_vars>>

\* return results
TestAllReturn ==
    /\ probes.pc = "loop"
    /\ probes.current = 0
    /\ items_exhausted(probes, connectors)
    /\ probes' = [probes EXCEPT !.pc = "returned"]
    /\ UNCHANGED <<connectors, calls, status, raised, adapter_vars, tester_vars>>

\* The caller has consumed the map.
TestAllEnd ==
    /\ probes.pc = "returned"
    /\ probes' = ProbesIdle
    /\ UNCHANGED <<connectors, calls, status, raised, adapter_vars, tester_vars>>

\* get_connector_status runs from entry to return.
GetConnectorStatus ==
    /\ ~loop_busy
    /\ status' = [pc |-> "returned", value |-> get_connector_status(connectors)]
    /\ UNCHANGED <<connectors, calls, probes, raised, adapter_vars, tester_vars>>

\* The caller has consumed the status map.
StatusEnd ==
    /\ status.pc = "returned"
    /\ status' = StatusIdle
    /\ UNCHANGED <<connectors, calls, probes, raised, adapter_vars, tester_vars>>

(***************************************************************************)
(* The record handed to the pushes of the orchestrator's specifications:   *)
(* sample_intelligence of example_integration.                             *)
(***************************************************************************)
SampleSeverity == 8
SampleConfidence == 85

sample_intelligence ==
    [ioc_hash |-> <<"abc123def456">>, threat_type |-> "malware",
     severity |-> <<SampleSeverity>>, confidence_score |-> <<SampleConfidence>>,
     submitter |-> <<"0x123...abc">>, is_verified |-> <<TRUE>>]

NotGenerated == [made |-> FALSE]

NotBuilt == [made |-> FALSE]

NotConstructed == [constructed |-> FALSE]

(***************************************************************************)
(* Spec: the orchestrator with the registry mutated at any time, also      *)
(* while a broadcast is suspended in gather.  The caller has built one     *)
(* connector for each type of StartupTypes.                                *)
(***************************************************************************)
StartupTypes == {"splunk", "elastic", "generic"}

StartupConnectors ==
    {create_siem_connector(t, SIEMConfig(t, DefaultMaxRetries)) : t \in StartupTypes}

Init ==
    /\ connectors = <<>>
    /\ calls = [c \in CallIds |-> Idle]
    /\ raised = ""
    /\ probes = ProbesIdle
    /\ status = StatusIdle
    /\ intelligence_data = sample_intelligence
    /\ now = 0
    /\ sent = <<>>
    /\ built = NotBuilt
    /\ generated = NotGenerated
    /\ tester = NotConstructed

Add == \E n \in Names, k \in StartupConnectors : AddSiemConnector(n, k)

Remove == \E n \in Names : RemoveSiemConnector(n)

Call == \E c \in DOMAIN calls, ts \in TargetArgs : BroadcastCall(c, ts)

Start == \E c \in DOMAIN calls, i \in 1..Cardinality(Names) : StartTask(c, i)

Push ==
    \E c \in DOMAIN calls, i \in 1..Cardinality(Names), met \in Encounters : RunTask(c, i, met)

Resume == \E c \in DOMAIN calls : BroadcastResume(c)

End == \E c \in DOMAIN calls : BroadcastEnd(c)

TestAll ==
    \/ TestAllCall
    \/ TestAllStart
    \/ \E response \in Responses : TestAllFinish(response)
    \/ TestAllReturn
    \/ TestAllEnd

Status == GetConnectorStatus \/ StatusEnd

Next == Add \/ Remove \/ Call \/ Start \/ Push \/ Resume \/ End \/ TestAll \/ Status

Spec == Init /\ [][Next]_vars

(***************************************************************************)
(* SpecSerial: the caller serialises registry mutations with broadcasts    *)
(* (no add or remove between a call and the use of its result) and         *)
(* registers connectors of every type and max_retries setting.             *)
(***************************************************************************)
AllConnectors == {create_siem_connector(k.siem_type, k) : k \in Configs}

AddSerial == AllIdle /\ \E n \in Names, k \in AllConnectors : AddSiemConnector(n, k)

RemoveSerial == AllIdle /\ Remove

NextSerial ==
    AddSerial \/ RemoveSerial \/ Call \/ Start \/ Push \/ Resume \/ End \/ TestAll \/ Status

SpecSerial == Init /\ [][NextSerial]_vars

(***************************************************************************)
(* SpecTwoCalls: two activations of broadcast_intelligence on one          *)
(* orchestrator whose registry is not mutated.  The second activation is   *)
(* entered while the first is suspended in gather; the caller consumes the *)
(* results when neither is suspended any more.                             *)
(***************************************************************************)
\* The connectors registered: one adapter and the fallback connector.
TwoCallConnectors ==
    {create_siem_connector(t, SIEMConfig(t, DefaultMaxRetries)) : t \in {"splunk", "generic"}}

\* The target_siems either activation is called with.
TwoCallTargets ==
    {None} \cup {List(names) : names \in SeqsUpTo(Names, 1)} \cup {List(<<"a", "b">>)}

Registries ==
    {<<>>}
    \cup {<<Item(n, k)>> : n \in Names, k \in TwoCallConnectors}
    \cup {d \in {<<Item(n, k), Item(m, l)>> :
                    n \in Names, m \in Names,
                    k \in TwoCallConnectors, l \in TwoCallConnectors} :
            d[1].name # d[2].name}

InitTwoCalls ==
    /\ connectors \in Registries
    /\ calls = [c \in TwoCallIds |-> Idle]
    /\ raised = ""
    /\ probes = ProbesIdle
    /\ status = StatusIdle
    /\ intelligence_data = sample_intelligence
    /\ now = 0
    /\ sent = <<>>
    /\ built = NotBuilt
    /\ generated = NotGenerated
    /\ tester = NotConstructed

CallFirst == AllIdle /\ \E ts \in TwoCallTargets : BroadcastCall("main", ts)

CallSecond ==
    /\ calls["main"].pc = "gather"
    /\ \E ts \in TwoCallTargets : BroadcastCall("second", ts)

EndBoth ==
    /\ ~loop_busy
    /\ \A c \in DOMAIN calls : calls[c].pc # "gather"
    /\ \E c \in DOMAIN calls : Ended(calls[c])
    /\ calls' = [c \in DOMAIN calls |-> Idle]
    /\ UNCHANGED <<connectors, probes, status, raised, adapter_vars, tester_vars>>

NextTwoCalls == CallFirst \/ CallSecond \/ Start \/ Push \/ Resume \/ EndBoth

SpecTwoCalls == InitTwoCalls /\ [][NextTwoCalls]_vars

TypeOK ==
    /\ \A i \in 1..Len(connectors) : connectors[i].name \in Names
    /\ \A c \in CallIds : calls[c].pc \in {"idle", "gather", "returned", "raised"}
    /\ probes.pc \in {"idle", "loop", "returned"}
    /\ status.pc \in {"idle", "returned"}
    /\ raised \in {"", "KeyError"}

(***************************************************************************)
(* The payload side of the adapters.  A field of intelligence_data is      *)
(* Absent or Some(value); get is dict.get(key, default).                   *)
(***************************************************************************)
Absent == <<>>
Some(v) == <<v>>
get(field, default) == IF field = Absent THEN default ELSE field[1]

Min(a, b) == IF a <= b THEN a ELSE b
Max(a, b) == IF a >= b THEN a ELSE b

\* Variant of _map_severity with the thresholds excluded (> for >=).
_map_severity_strict(sui_severity) ==
    IF sui_severity > 8 THEN "critical"
    ELSE IF sui_severity > 6 THEN "high"
    ELSE IF sui_severity > 4 THEN "medium"
    ELSE "low"

_map_severity(sui_severity) ==
    IF sui_severity >= 8 THEN "critical"
    ELSE IF sui_severity >= 6 THEN "high"
    ELSE IF sui_severity >= 4 THEN "medium"
    ELSE "low"

\* Variant of _map_confidence with the thresholds excluded (> for >=).
_map_confidence_strict(confidence_score) ==
    IF confidence_score > 80 THEN "high"
    ELSE IF confidence_score > 60 THEN "medium"
    ELSE "low"

_map_confidence(confidence_score) ==
    IF confidence_score >= 80 THEN "high"
    ELSE IF confidence_score >= 60 THEN "medium"
    ELSE "low"

\* Variant of _qradar_severity_mapping that passes the severity through.
_qradar_severity_unclamped(sui_severity) == sui_severity

_qradar_severity_mapping(sui_severity) == Min(10, Max(1, sui_severity))

\* hashlib.sha256(data).hexdigest(): one digest per input.
sha256_hexdigest(data) == [sha256 |-> data]

\* Variant of the document id that also hashes the threat type.
elastic_doc_id_typed(d) ==
    sha256_hexdigest(get(d.ioc_hash, "") \o get(d.submitter, "") \o d.threat_type)

\* f"{intelligence_data.get('ioc_hash', '')}{intelligence_data.get('submitter', '')}"
elastic_doc_id(d) ==
    sha256_hexdigest(get(d.ioc_hash, "") \o get(d.submitter, ""))

VendorClasses ==
    {"SplunkConnector", "QRadarConnector", "SentinelConnector", "ElasticConnector"}

\* The request each adapter sends for the record d at time t: the fields
\* of the body computed from d, and `of`, the record itself.
splunk_request(d, t) ==
    [adapter |-> "SplunkConnector", method |-> "POST",
     path |-> "/services/collector/event", time |-> t,
     severity |-> _map_severity(get(d.severity, 1)),
     confidence |-> _map_confidence(get(d.confidence_score, 0)),
     threat_type |-> d.threat_type,
     verified |-> get(d.is_verified, FALSE), of |-> d]

qradar_request(d, t) ==
    [adapter |-> "QRadarConnector", method |-> "POST",
     path |-> "/api/siem/events",
     severity |-> _qradar_severity_mapping(get(d.severity, 1)),
     credibility |-> Min(10, get(d.confidence_score, 0) \div 10),
     relevance |-> IF get(d.is_verified, FALSE) THEN 10 ELSE 5,
     threat_type |-> d.threat_type, of |-> d]

sentinel_request(d, t) ==
    [adapter |-> "SentinelConnector", method |-> "POST",
     path |-> "/api/logs", time |-> t,
     severity |-> _map_severity(get(d.severity, 1)),
     confidence_score |-> get(d.confidence_score, 0),
     threat_type |-> d.threat_type,
     verified |-> get(d.is_verified, FALSE), of |-> d]

\* Variant of the Elasticsearch document with thresholds of its own for
\* log.level.
elastic_request_own_thresholds(d, t) ==
    [adapter |-> "ElasticConnector", method |-> "PUT",
     path |-> "/cti-intelligence/_doc/", doc_id |-> elastic_doc_id(d), time |-> t,
     severity |-> _map_severity_strict(get(d.severity, 1)),
     confidence |-> _map_confidence(get(d.confidence_score, 0)),
     threat_type |-> d.threat_type,
     verified |-> get(d.is_verified, FALSE), of |-> d]

elastic_request(d, t) ==
    [adapter |-> "ElasticConnector", method |-> "PUT",
     path |-> "/cti-intelligence/_doc/", doc_id |-> elastic_doc_id(d), time |-> t,
     severity |-> _map_severity(get(d.severity, 1)),
     confidence |-> _map_confidence(get(d.confidence_score, 0)),
     threat_type |-> d.threat_type,
     verified |-> get(d.is_verified, FALSE), of |-> d]

request(class, d, t) ==
    CASE class = "SplunkConnector"   -> splunk_request(d, t)
      [] class = "QRadarConnector"   -> qradar_request(d, t)
      [] class = "SentinelConnector" -> sentinel_request(d, t)
      [] class = "ElasticConnector"  -> elastic_request(d, t)

\* The orchestrator at rest, for the specifications of the payload side
\* and of the test data generator.
OrchestratorAtRest ==
    /\ connectors = <<>>
    /\ calls = [c \in CallIds |-> Idle]
    /\ raised = ""
    /\ probes = ProbesIdle
    /\ status = StatusIdle

\* push_intelligence of a vendor adapter builds its payload from
\* intelligence_data and sends the request.
SendRequest(class) ==
    /\ sent' = Append(sent, request(class, intelligence_data, now))
    /\ UNCHANGED <<connectors, calls, raised, probes, status,
                   intelligence_data, now, built, tester_vars>>

\* The caller hands another record to the next push.
NextRecord(d) ==
    /\ intelligence_data' = d
    /\ UNCHANGED <<connectors, calls, raised, probes, status, now, sent, built, tester_vars>>

(***************************************************************************)
(* SpecMappers: one record pushed once by each vendor adapter, in any       *)
(* order, for every severity of -2..MaxSeverity and confidence score of    *)
(* 0..MaxConfidence, present or absent, verified or not.                   *)
(***************************************************************************)
MaxSeverity == 11
MaxConfidence == 101

MapperRecords ==
    {[sample_intelligence EXCEPT !.severity = s, !.confidence_score = c, !.is_verified = v] :
        s \in {Absent} \cup {Some(n) : n \in -2..MaxSeverity},
        c \in {Absent} \cup {Some(n) : n \in 0..MaxConfidence},
        v \in {Absent, Some(TRUE), Some(FALSE)}}

InitMappers ==
    /\ OrchestratorAtRest
    /\ intelligence_data \in MapperRecords
    /\ now = 0
    /\ sent = <<>>
    /\ built = NotBuilt
    /\ generated = NotGenerated
    /\ tester = NotConstructed

PushOnce ==
    \E class \in VendorClasses :
        /\ \A i \in 1..Len(sent) : sent[i].adapter # class
        /\ SendRequest(class)

NextMappers == PushOnce

SpecMappers == InitMappers /\ [][NextMappers]_vars

(***************************************************************************)
(* SpecElastic: up to MaxSent pushes of the Elasticsearch adapter, of      *)
(* records that differ in ioc_hash, submitter and threat type, at          *)
(* different times.                                                        *)
(***************************************************************************)
MaxSent == 2
MaxTime == 1

ElasticRecords ==
    {[sample_intelligence EXCEPT !.ioc_hash = h, !.submitter = u, !.threat_type = y] :
        h \in {Absent, Some("a"), Some("ab")},
        u \in {Some("c"), Some("bc")},
        y \in {"malware", "phishing"}}

InitElastic ==
    /\ OrchestratorAtRest
    /\ intelligence_data \in ElasticRecords
    /\ now = 0
    /\ sent = <<>>
    /\ built = NotBuilt
    /\ generated = NotGenerated
    /\ tester = NotConstructed

Tick ==
    /\ now < MaxTime
    /\ now' = now + 1
    /\ UNCHANGED <<connectors, calls, raised, probes, status,
                   intelligence_data, sent, built, tester_vars>>

Handover == \E d \in ElasticRecords : NextRecord(d)

PushElastic == Len(sent) < MaxSent /\ SendRequest("ElasticConnector")

NextElastic == Tick \/ Handover \/ PushElastic

SpecElastic == InitElastic /\ [][NextElastic]_vars

(***************************************************************************)
(* SpecFactory: create_siem_connector called with every member of SIEMType *)
(* and with tags that are no member, for every configuration.              *)
(***************************************************************************)
UnrecognizedTags == {"", "custom", "SPLUNK"}

CreateSiemConnector(siem_type, config) ==
    /\ ~built.made
    /\ built' = [made |-> TRUE, siem_type |-> siem_type, config |-> config,
                 connector |-> create_siem_connector(siem_type, config)]
    /\ UNCHANGED <<connectors, calls, raised, probes, status,
                   intelligence_data, now, sent, tester_vars>>

InitFactory ==
    /\ OrchestratorAtRest
    /\ intelligence_data = sample_intelligence
    /\ now = 0
    /\ sent = <<>>
    /\ built = NotBuilt
    /\ generated = NotGenerated
    /\ tester = NotConstructed

NextFactory ==
    \E siem_type \in SIEMType \cup UnrecognizedTags, config \in Configs :
        CreateSiemConnector(siem_type, config)

SpecFactory == InitFactory /\ [][NextFactory]_vars

(***************************************************************************)
(* tests/python/cti_platform_tester.py: ThreatDataGenerator.               *)
(* random.choice and random.randint are choices over their ranges.  The    *)
(* IOC string is kept by its kind; mitre_techniques, a random sample of    *)
(* MITRE_TECHNIQUES, is left out of the record.                            *)
(***************************************************************************)
THREAT_TYPES ==
    {"malware", "phishing", "ransomware", "botnet", "apt", "ddos", "data_breach",
     "insider_threat", "cryptocurrency_miner", "trojan", "spyware", "adware"}

high_severity_types == {"ransomware", "apt", "data_breach"}

ioc_types == {"file_hash", "ip_address", "domain", "url", "email"}

\* hashlib.sha256(data).digest(): 32 bytes, one digest per input.
sha256_digest(data) == [sha256 |-> data, size |-> 32]

\* Variant of generate_ioc_hash that returns the hexadecimal digest.
generate_ioc_hash_hexdigest(ioc_data) == [sha256 |-> ioc_data, size |-> 64]

generate_ioc_hash(ioc_data) == sha256_digest(ioc_data)

\* len(bytes)
len(bytes) == bytes.size

\* generate_stix_pattern tests '@', four dot-separated parts, 'http', a
\* length of 32, in that order: each kind of IOC gets its own pattern.
generate_stix_pattern(ioc_type) ==
    CASE ioc_type = "email"      -> "email-addr:value"
      [] ioc_type = "ip_address" -> "ipv4-addr:value"
      [] ioc_type = "url"        -> "url:value"
      [] ioc_type = "file_hash"  -> "file:hashes.MD5"
      [] ioc_type = "domain"     -> "domain-name:value"

\* `if not severity:` random.randint(7, 10) for a high severity type,
\* random.randint(3, 8) otherwise; the argument itself when it is truthy.
severity_choices(threat_type, severity) ==
    IF severity = Absent \/ get(severity, 0) = 0
    THEN IF threat_type \in high_severity_types THEN 7..10 ELSE 3..8
    ELSE {get(severity, 0)}

\* `if not threat_type:` random.choice(THREAT_TYPES)
threat_type_choices(threat_type) ==
    IF threat_type = Absent \/ get(threat_type, "") = ""
    THEN THREAT_TYPES ELSE {get(threat_type, "")}

confidence_choices == 60..95

expiration_choices == {24, 48, 72, 168}

\* The arguments the tests pass: nothing, a threat type of the list or
\* outside it, a severity (0, inside 1..10, above it).
ThreatTypeArgs == {Absent, Some(""), Some("ransomware"), Some("zero_day")}

SeverityArgs == {Absent} \cup {Some(n) : n \in {0, 5, MaxSeverity}}

ThreatIntelligenceData(ioc_type, threat_type, severity, confidence_score, expiration_hours) ==
    [ioc_hash |-> generate_ioc_hash(ioc_type),
     threat_type |-> threat_type,
     severity |-> severity,
     confidence_score |-> confidence_score,
     stix_pattern |-> generate_stix_pattern(ioc_type),
     expiration_hours |-> expiration_hours]

\* generate_threat_intelligence(threat_type, severity); args keeps the
\* arguments of the call.
GenerateThreatIntelligence(threat_type, severity) ==
    /\ ~generated.made
    /\ \E chosen_type \in threat_type_choices(threat_type) :
       \E chosen_severity \in severity_choices(chosen_type, severity) :
       \E ioc_type \in ioc_types, confidence_score \in confidence_choices,
          expiration_hours \in expiration_choices :
            generated' =
                [record |-> ThreatIntelligenceData(ioc_type, chosen_type, chosen_severity,
                                                   confidence_score, expiration_hours),
                 made |-> TRUE,
                 args |-> [threat_type |-> threat_type, severity |-> severity]]
    /\ UNCHANGED <<connectors, calls, raised, probes, status, adapter_vars, tester>>

InitGenerator ==
    /\ OrchestratorAtRest
    /\ intelligence_data = sample_intelligence
    /\ now = 0
    /\ sent = <<>>
    /\ built = NotBuilt
    /\ generated = NotGenerated
    /\ tester = NotConstructed

Generate ==
    \E threat_type \in ThreatTypeArgs, severity \in SeverityArgs :
        GenerateThreatIntelligence(threat_type, severity)

NextGenerator == Generate

SpecGenerator == InitGenerator /\ [][NextGenerator]_vars

(***************************************************************************)
(* tests/python/cti_platform_tester.py: CTIPlatformTester.  The tests of   *)
(* the suite read self.participants and store their result under their     *)
(* name in self.test_results; a test that raises is logged and skipped.    *)
(* The random address and reputation of a participant are left out.        *)
(***************************************************************************)
NumParticipants == 10
MaxSetups == 2          \* calls of setup_test_environment on one tester

CTIPlatformConfig(network, package_id) ==
    [network |-> network, package_id |-> package_id, gas_budget |-> 20000000]

TesterConfigs ==
    {CTIPlatformConfig(n, p) : n \in {"localnet", "devnet", "testnet"},
                               p \in {"", "0x123"}}

test_functions ==
    <<"participant_registration", "intelligence_submission", "validation_workflow",
      "performance_benchmarks", "scalability_stress">>

\* __init__: with is the configuration the constructor was given.
CTIPlatformTester(config) ==
    [constructed |-> TRUE, config |-> config, with |-> config,
     participants |-> <<>>, test_results |-> {}, setups |-> 0,
     pc |-> "idle", next_test |-> 0]

participant(i) ==
    [id |-> <<"test_participant_", i>>, organization |-> <<"Test Org ", i>>]

\* Variant of setup_test_environment that starts from an empty list.
setup_test_environment_fresh(participants) ==
    [i \in 1..NumParticipants |-> participant(i - 1)]

\* for i in range(10): self.participants.append(participant)
setup_test_environment(participants) ==
    participants \o [i \in 1..NumParticipants |-> participant(i - 1)]

Construct(config) ==
    /\ ~tester.constructed
    /\ tester' = CTIPlatformTester(config)
    /\ UNCHANGED <<connectors, calls, raised, probes, status, adapter_vars, generated>>

\* await tester.setup_test_environment(): no suspension point inside.
SetupTestEnvironment ==
    /\ tester.constructed
    /\ tester.pc = "idle"
    /\ tester.setups < MaxSetups
    /\ tester' = [tester EXCEPT
            !.participants = setup_test_environment(@),
            !.setups = @ + 1]
    /\ UNCHANGED <<connectors, calls, raised, probes, status, adapter_vars, generated>>

\* run_full_test_suite up to the first test: it sets the environment up.
RunFullTestSuite ==
    /\ tester.constructed
    /\ tester.pc = "idle"
    /\ tester.setups < MaxSetups
    /\ tester' = [tester EXCEPT
            !.participants = setup_test_environment(@),
            !.setups = @ + 1,
            !.pc = "suite",
            !.next_test = 1]
    /\ UNCHANGED <<connectors, calls, raised, probes, status, adapter_vars, generated>>

\* The next test of the suite ends: it stored its result, or it raised.
RunTest(stored) ==
    /\ tester.constructed
    /\ tester.pc = "suite"
    /\ tester.next_test <= Len(test_functions)
    /\ tester' = [tester EXCEPT
            !.test_results = IF stored THEN @ \cup {test_functions[tester.next_test]} ELSE @,
            !.next_test = @ + 1]
    /\ UNCHANGED <<connectors, calls, raised, probes, status, adapter_vars, generated>>

\* return self.test_results
SuiteReturn ==
    /\ tester.constructed
    /\ tester.pc = "suite"
    /\ tester.next_test > Len(test_functions)
    /\ tester' = [tester EXCEPT !.pc = "idle", !.next_test = 0]
    /\ UNCHANGED <<connectors, calls, raised, probes, status, adapter_vars, generated>>

InitTester ==
    /\ OrchestratorAtRest
    /\ intelligence_data = sample_intelligence
    /\ now = 0
    /\ sent = <<>>
    /\ built = NotBuilt
    /\ generated = NotGenerated
    /\ tester = NotConstructed

NextTester ==
    \/ \E config \in TesterConfigs : Construct(config)
    \/ SetupTestEnvironment
    \/ RunFullTestSuite
    \/ \E stored \in BOOLEAN : RunTest(stored)
    \/ SuiteReturn

SpecTester == InitTester /\ [][NextTester]_vars

(***************************************************************************)
(* Vocabulary of the properties                                            *)
(***************************************************************************)
TaskIdx(call) == 1..Len(call.tasks)

task_names(call) == {call.tasks[i].name : i \in TaskIdx(call)}

result_keys(call) == {call.results[i].name : i \in 1..Len(call.results)}

\* results[name], for a name of result_keys
result_of(call, name) ==
    call.results[CHOOSE k \in 1..Len(call.results) : call.results[k].name = name].ok

\* connector.push_intelligence returned True / raised / returned False
PushTrue(t) == t.done /\ t.ran.pushed.exc = "" /\ t.ran.pushed.value
PushRaised(t) == t.done /\ t.ran.pushed.exc # ""
PushFalse(t) == t.done /\ t.ran.pushed.exc = "" /\ ~t.ran.pushed.value

\* The names a call resolves to on entry, from the registry's names then.
Targeted(call) ==
    IF truthy(call.target_siems)
    THEN call.registered \cap elems(call.target_siems.names)
    ELSE call.registered

(***************************************************************************)
(* C1 -- Fault isolation: when a broadcast over two or more connectors has *)
(* ended and one push raised while every other push returned True, the     *)
(* call returned a map (it did not raise), every push ran to its end, and  *)
(* the map holds False for each raising name and True for each other name. *)
(***************************************************************************)
C1_FaultIsolation ==
    \A c \in CallIds :
        LET call == calls[c]
        IN  (/\ Ended(call)
             /\ Len(call.tasks) >= 2
             /\ \E i \in TaskIdx(call) : PushRaised(call.tasks[i])
             /\ \A i \in TaskIdx(call) :
                    PushRaised(call.tasks[i]) \/ PushTrue(call.tasks[i]))
            => /\ call.pc = "returned"
               /\ \A i \in TaskIdx(call) :
                    /\ call.tasks[i].done
                    /\ call.tasks[i].name \in result_keys(call)
                    /\ result_of(call, call.tasks[i].name) = PushTrue(call.tasks[i])

(***************************************************************************)
(* C2 -- No short-circuit: a broadcast that has ended (returned or raised) *)
(* has no pending push: every task it launched is done.                    *)
(***************************************************************************)
C2_NoShortCircuit ==
    \A c \in CallIds :
        Ended(calls[c]) => \A i \in TaskIdx(calls[c]) : calls[c].tasks[i].done

\* A returned broadcast over two connectors, one push failed, one succeeded.
C2_Witness ==
    \E c \in CallIds :
        /\ calls[c].pc = "returned"
        /\ Len(calls[c].tasks) = 2
        /\ \E i, j \in TaskIdx(calls[c]) :
              PushFalse(calls[c].tasks[i]) /\ PushTrue(calls[c].tasks[j])

(***************************************************************************)
(* C3 -- Snapshot of the registry: a broadcast called without target_siems *)
(* ends by returning (not raising) a map whose keys are exactly the names  *)
(* registered on entry, each with the outcome of the push launched for it, *)
(* whatever add or remove ran while the pushes were in flight.             *)
(***************************************************************************)
C3_RegistrySnapshot ==
    \A c \in CallIds :
        LET call == calls[c]
        IN  (Ended(call) /\ ~call.target_siems.given)
            => /\ call.pc = "returned"
               /\ result_keys(call) = call.registered
               /\ \A i \in TaskIdx(call) :
                    /\ call.tasks[i].name \in result_keys(call)
                    /\ result_of(call, call.tasks[i].name) = call.tasks[i].ran.value

(***************************************************************************)
(* C4 -- Target filter: a broadcast called with a list target_siems (of    *)
(* any length, zero included) returns a map whose key set is exactly the   *)
(* registered names that are in the list, and launches no push for a name  *)
(* outside the list.                                                       *)
(***************************************************************************)
C4_TargetFilter ==
    \A c \in CallIds :
        LET call == calls[c]
        IN  (Ended(call) /\ call.target_siems.given)
            => /\ call.pc = "returned"
               /\ result_keys(call) = call.registered \cap elems(call.target_siems.names)
               /\ task_names(call) \subseteq elems(call.target_siems.names)

(***************************************************************************)
(* C5 -- Outcomes under their own name: every entry results[name] of a     *)
(* returned map is the outcome of the push this call launched for that     *)
(* name: True when that push returned True, False when it returned False   *)
(* or raised.                                                              *)
(***************************************************************************)
C5_OutcomeUnderOwnName ==
    \A c \in CallIds :
        LET call == calls[c]
        IN  call.pc = "returned"
            => \A k \in 1..Len(call.results) :
                 \E i \in TaskIdx(call) :
                    /\ call.tasks[i].name = call.results[k].name
                    /\ call.results[k].ok = PushTrue(call.tasks[i])

(***************************************************************************)
(* C6 -- Counts: for a returned map, success_count <= total_count <= the   *)
(* number of connectors registered on entry; a broadcast on an empty       *)
(* registry returns the empty map, both counts zero.                       *)
(***************************************************************************)
C6_Counts ==
    \A c \in CallIds :
        LET call == calls[c]
        IN  /\ call.pc = "returned"
                => /\ success_count(call.results) <= Len(call.results)
                   /\ Len(call.results) <= Cardinality(call.registered)
            /\ (Ended(call) /\ call.registered = {})
                => /\ call.pc = "returned"
                   /\ call.results = <<>>
                   /\ success_count(call.results) = 0

\* A returned map with one success among two entries.
C6_Witness ==
    \E c \in CallIds :
        /\ calls[c].pc = "returned"
        /\ Len(calls[c].results) = 2
        /\ success_count(calls[c].results) = 1

(***************************************************************************)
(* C7 -- push_intelligence never raises: for every connector the factory   *)
(* makes and everything a push can meet, the push returns a boolean.       *)
(***************************************************************************)
C7_PushNeverRaises ==
    \A c \in CallIds : \A i \in TaskIdx(calls[c]) :
        calls[c].tasks[i].done => calls[c].tasks[i].ran.pushed.exc = ""

(***************************************************************************)
(* C7 as amended -- the push of a vendor adapter (Splunk, QRadar,          *)
(* Sentinel, Elastic) returns a boolean whatever it meets; the push of the *)
(* generic fallback raises NotImplementedError, which the orchestrator's   *)
(* _safe_push_intelligence turns into False.                               *)
(***************************************************************************)
C7_VendorPushNeverRaises ==
    \A c \in CallIds : \A i \in TaskIdx(calls[c]) :
        LET t == calls[c].tasks[i]
        IN  t.done
            => /\ t.connector.class \in VendorClasses => t.ran.pushed.exc = ""
               /\ t.connector.class = "SIEMConnector"
                    => /\ t.ran.pushed.exc = "NotImplementedError"
                       /\ t.ran.exc = ""
                       /\ t.ran.value = FALSE

\* One broadcast where a vendor push met a transport fault and the generic
\* fallback was pushed to.
C7_Witness ==
    \E c \in CallIds : \E i, j \in TaskIdx(calls[c]) :
        /\ calls[c].tasks[i].done
        /\ calls[c].tasks[i].connector.class \in VendorClasses
        /\ calls[c].tasks[i].ran.pushed.response.fault \in TransportFaults
        /\ calls[c].tasks[j].done
        /\ calls[c].tasks[j].connector.class = "SIEMConnector"

(***************************************************************************)
(* C8 -- Accepted statuses: the push of a vendor adapter returns True if   *)
(* and only if its one HTTP call was answered with a status of the         *)
(* adapter's accepted set: {200} for Splunk and Sentinel, {200, 201} for   *)
(* QRadar and Elastic.                                                     *)
(***************************************************************************)
AcceptedSet(class) ==
    IF class \in {"SplunkConnector", "SentinelConnector"} THEN {200} ELSE {200, 201}

C8_AcceptedStatus ==
    \A c \in CallIds : \A i \in TaskIdx(calls[c]) :
        LET t == calls[c].tasks[i]
        IN  (t.done /\ t.connector.class \in VendorClasses)
            => (PushTrue(t) <=>
                    /\ t.ran.pushed.http_calls = 1
                    /\ t.ran.pushed.response.fault = ""
                    /\ t.ran.pushed.response.status_code \in AcceptedSet(t.connector.class))

\* Status 201 accepted by one adapter and rejected by another of one call.
C8_Witness ==
    \E c \in CallIds : \E i, j \in TaskIdx(calls[c]) :
        /\ calls[c].tasks[i].ran.pushed.response = Answer(201)
        /\ PushTrue(calls[c].tasks[i])
        /\ calls[c].tasks[j].ran.pushed.response = Answer(201)
        /\ PushFalse(calls[c].tasks[j])

(***************************************************************************)
(* C9 -- Generic fallback: its push always raises NotImplementedError, and *)
(* a broadcast that targets it returns a map (it does not raise) with      *)
(* False under the fallback's name and, under every other name, the        *)
(* outcome of that connector's own push.                                   *)
(***************************************************************************)
C9_GenericFallback ==
    \A c \in CallIds :
        LET call == calls[c]
        IN  /\ \A i \in TaskIdx(call) :
                (call.tasks[i].done /\ call.tasks[i].connector.class = "SIEMConnector")
                => call.tasks[i].ran.pushed.exc = "NotImplementedError"
            /\ (/\ Ended(call)
                /\ \E i \in TaskIdx(call) : call.tasks[i].connector.class = "SIEMConnector")
                => /\ call.pc = "returned"
                   /\ \A i \in TaskIdx(call) :
                        /\ call.tasks[i].name \in result_keys(call)
                        /\ result_of(call, call.tasks[i].name) = PushTrue(call.tasks[i])

(***************************************************************************)
(* C10 -- Single attempt: in an ended broadcast every targeted connector   *)
(* has exactly one task, which called push_intelligence exactly once, no   *)
(* task exists for another name, and every push issued exactly one HTTP    *)
(* call, whatever max_retries is.                                          *)
(***************************************************************************)
OnePushPerTarget(call) ==
    /\ task_names(call) = Targeted(call)
    /\ \A i, j \in TaskIdx(call) : call.tasks[i].name = call.tasks[j].name => i = j
    /\ \A i \in TaskIdx(call) : call.tasks[i].ran.pushes = 1

C10_SingleAttempt ==
    \A c \in CallIds :
        Ended(calls[c])
        => /\ OnePushPerTarget(calls[c])
           /\ \A i \in TaskIdx(calls[c]) : calls[c].tasks[i].ran.http_calls = 1

(***************************************************************************)
(* C10 as amended -- in an ended broadcast every targeted connector has    *)
(* exactly one task, which called push_intelligence exactly once, no task  *)
(* exists for another name, and every push issued at most one HTTP call:   *)
(* one when the adapter got to send its request, none for the generic      *)
(* fallback or when building the payload raised; whatever max_retries is.  *)
(***************************************************************************)
C10_SingleAttemptAtMostOneCall ==
    \A c \in CallIds :
        Ended(calls[c])
        => /\ OnePushPerTarget(calls[c])
           /\ \A i \in TaskIdx(calls[c]) :
                LET t == calls[c].tasks[i]
                IN  /\ t.ran.http_calls <= 1
                    /\ t.connector.class = "SIEMConnector" => t.ran.http_calls = 0
                    /\ t.ran.pushed.response # NoResponse => t.ran.http_calls = 1

\* An ended broadcast that targeted one of two registered connectors, whose
\* push failed on a connector configured with retries.
C10_Witness ==
    \E c \in CallIds :
        /\ Ended(calls[c])
        /\ Cardinality(calls[c].registered) = 2
        /\ Len(calls[c].tasks) = 1
        /\ calls[c].tasks[1].connector.config.max_retries > 0
        /\ calls[c].tasks[1].connector.class \in VendorClasses
        /\ PushFalse(calls[c].tasks[1])
        /\ calls[c].tasks[1].ran.http_calls = 1

(***************************************************************************)
(* C11 -- Pushes run concurrently: while the push to one connector of a    *)
(* broadcast is in flight (started, not completed), the push to any other  *)
(* target of the broadcast that has not started yet can start, so that two *)
(* pushes are in flight together and a slow connector does not delay the   *)
(* others.                                                                 *)
(***************************************************************************)
C11_PushesOverlap ==
    \A c \in CallIds : \A i, j \in TaskIdx(calls[c]) :
        (in_flight(calls[c].tasks[i]) /\ ~calls[c].tasks[j].started)
        => ENABLED StartTask(c, j)

\* What the code does instead: at most one push is in flight at a time.
C11_OnePushAtATime ==
    \A c \in CallIds : \A i, j \in TaskIdx(calls[c]) :
        (in_flight(calls[c].tasks[i]) /\ in_flight(calls[c].tasks[j])) => i = j

(***************************************************************************)
(* C12 -- test_all_connections returns a map with exactly one boolean      *)
(* entry for every registered connector, in the registry's order; the      *)
(* entry of a connector whose probe raised is False, and every entry is    *)
(* the outcome of that connector's own probe.                              *)
(***************************************************************************)
C12_OneEntryPerConnector ==
    probes.pc = "returned"
    => /\ Len(probes.results) = Len(connectors)
       /\ Len(probes.probed) = Len(connectors)
       /\ \A i \in 1..Len(probes.results) :
            /\ probes.results[i].name = connectors[i].name
            /\ probes.results[i].ok \in BOOLEAN
            /\ probes.probed[i].name = connectors[i].name
            /\ probes.probed[i].outcome.response.fault # "" => ~probes.results[i].ok
            /\ probes.results[i].ok =
                   (probes.probed[i].outcome.response = Answer(200))
       /\ \A i, j \in 1..Len(probes.results) :
            probes.results[i].name = probes.results[j].name => i = j

\* A returned map over two connectors: the first probe raised, the second
\* was answered 200.
C12_Witness ==
    /\ probes.pc = "returned"
    /\ Len(probes.results) = 2
    /\ probes.probed[1].outcome.response.fault \in TransportFaults
    /\ ~probes.results[1].ok
    /\ probes.results[2].ok

(***************************************************************************)
(* C13 -- test_connection issues one GET, returns True if and only if the  *)
(* GET was answered with status 200, returns False for every other status  *)
(* and for every exception of the GET, and never raises.                   *)
(***************************************************************************)
C13_TestConnection ==
    \A i \in 1..Len(probes.probed) :
        LET outcome == probes.probed[i].outcome
        IN  /\ outcome.exc = ""
            /\ outcome.http_calls = 1
            /\ outcome.value \in BOOLEAN
            /\ outcome.value <=> (/\ outcome.response.fault = ""
                                  /\ outcome.response.status_code = 200)

\* Two probes of one test_all_connections: a QRadar connector answered 201
\* (not healthy) and a connector whose GET timed out.
C13_Witness ==
    \E i, j \in 1..Len(probes.probed) :
        /\ connectors[i].connector.class = "QRadarConnector"
        /\ probes.probed[i].outcome.response = Answer(201)
        /\ ~probes.probed[i].outcome.value
        /\ probes.probed[j].outcome.response = Fault("Timeout")
        /\ ~probes.probed[j].outcome.value

(***************************************************************************)
(* C14 -- Last write wins: add_siem_connector(name, k) leaves the registry *)
(* with exactly one entry for name, bound to k, and every other name as it *)
(* was; remove_siem_connector(name) leaves it with no entry for name and   *)
(* every other name as it was, changes nothing when name is not            *)
(* registered; neither raises.  So the registry maps a name to the         *)
(* connector of its most recent add unless a remove followed.              *)
(***************************************************************************)
entries(d, name) == {i \in 1..Len(d) : d[i].name = name}

bound_to(d, name) == {d[i].connector : i \in entries(d, name)}

others_kept(d, e, name) ==
    \A m \in Names \ {name} :
        /\ bound_to(e, m) = bound_to(d, m)
        /\ Cardinality(entries(e, m)) = Cardinality(entries(d, m))

C14_LastWriteWins ==
    [][<<connectors, raised>>' # <<connectors, raised>>
       => /\ \A n \in Names, k \in AllConnectors :
               AddSiemConnector(n, k)
               => /\ Cardinality(entries(connectors', n)) = 1
                  /\ bound_to(connectors', n) = {k}
                  /\ others_kept(connectors, connectors', n)
                  /\ raised' = ""
          /\ \A n \in Names :
               RemoveSiemConnector(n)
               => /\ entries(connectors', n) = {}
                  /\ others_kept(connectors, connectors', n)
                  /\ n \notin keys(connectors) => connectors' = connectors
                  /\ raised' = ""
          /\ \A n \in Names : Cardinality(entries(connectors', n)) <= 1
      ]_vars

\* Both names registered, with connectors of different classes.
C14_Witness ==
    /\ Len(connectors) = 2
    /\ connectors[1].name # connectors[2].name
    /\ connectors[1].connector # connectors[2].connector
    /\ raised = ""

(***************************************************************************)
(* C15 -- Frame: a step that changes the registry is an add or a remove;   *)
(* the steps of broadcast_intelligence, test_all_connections and           *)
(* get_connector_status leave the registry, with the connectors and their  *)
(* configurations, as it was; get_connector_status starts no push and no   *)
(* probe and sends no request.                                             *)
(***************************************************************************)
C15_OnlyAddRemoveChangeRegistry ==
    [][/\ connectors' # connectors
            => /\ \/ \E n \in Names, k \in AllConnectors : AddSiemConnector(n, k)
                  \/ \E n \in Names : RemoveSiemConnector(n)
               /\ ~(Call \/ Start \/ Push \/ Resume \/ End \/ TestAll \/ Status)
       /\ (status' # status /\ status'.pc = "returned")
            => /\ GetConnectorStatus
               /\ calls' = calls
               /\ probes' = probes
               /\ sent' = sent
               /\ status'.value = get_connector_status(connectors')
      ]_vars

\* get_connector_status has returned the projection of two connectors
\* while a broadcast over them is suspended in gather, one push done.
C15_Witness ==
    /\ status.pc = "returned"
    /\ Len(status.value) = 2
    /\ \E c \in CallIds :
        /\ calls[c].pc = "gather"
        /\ \E i \in TaskIdx(calls[c]) : calls[c].tasks[i].done

(***************************************************************************)
(* C16 -- Severity bands: a request of an adapter that sends the severity  *)
(* label (Splunk, Sentinel, Elastic), built from a record whose severity   *)
(* is an integer of 1..10, carries low for 1-3, medium for 4-5, high for   *)
(* 6-7, critical for 8-10; and the mapping is monotonic: no lower severity *)
(* of 1..10 maps to a higher label.                                        *)
(***************************************************************************)
LabelAdapters == {"SplunkConnector", "SentinelConnector", "ElasticConnector"}

severity_rank(label) ==
    CASE label = "low" -> 1 [] label = "medium" -> 2
      [] label = "high" -> 3 [] label = "critical" -> 4

C16_SeverityBands ==
    \A i \in 1..Len(sent) :
        LET r == sent[i]
            s == get(r.of.severity, 1)
        IN  (r.adapter \in LabelAdapters /\ r.of.severity # Absent /\ s \in 1..10)
            => /\ s \in 1..3 => r.severity = "low"
               /\ s \in 4..5 => r.severity = "medium"
               /\ s \in 6..7 => r.severity = "high"
               /\ s \in 8..10 => r.severity = "critical"
               /\ \A lower \in 1..s :
                    severity_rank(_map_severity(lower)) <= severity_rank(r.severity)

\* A Sentinel request built from a record of severity 6, labelled high.
C16_Witness ==
    \E i \in 1..Len(sent) :
        /\ sent[i].adapter = "SentinelConnector"
        /\ sent[i].of.severity = Some(6)
        /\ sent[i].severity = "high"

(***************************************************************************)
(* C17 -- Confidence bands: a request of an adapter that sends the         *)
(* confidence label (Splunk, Elastic), built from a record whose           *)
(* confidence score is an integer of 0..100, carries low for 0-59, medium  *)
(* for 60-79, high for 80-100.                                             *)
(***************************************************************************)
C17_ConfidenceBands ==
    \A i \in 1..Len(sent) :
        LET r == sent[i]
            c == get(r.of.confidence_score, 0)
        IN  (/\ r.adapter \in {"SplunkConnector", "ElasticConnector"}
             /\ r.of.confidence_score # Absent
             /\ c \in 0..100)
            => /\ c \in 0..59 => r.confidence = "low"
               /\ c \in 60..79 => r.confidence = "medium"
               /\ c \in 80..100 => r.confidence = "high"

\* A Splunk request built from a record of confidence score 80, labelled
\* high.
C17_Witness ==
    \E i \in 1..Len(sent) :
        /\ sent[i].adapter = "SplunkConnector"
        /\ sent[i].of.confidence_score = Some(80)
        /\ sent[i].confidence = "high"

(***************************************************************************)
(* C18 -- Elasticsearch document id: two PUT requests built from records   *)
(* with the same ioc_hash and the same submitter carry the same document   *)
(* id, whatever the other fields of the records and the times of the       *)
(* pushes.                                                                 *)
(***************************************************************************)
C18_DocIdOfPair ==
    \A i, j \in 1..Len(sent) :
        (/\ sent[i].adapter = "ElasticConnector"
         /\ sent[j].adapter = "ElasticConnector"
         /\ sent[i].of.ioc_hash = sent[j].of.ioc_hash
         /\ sent[i].of.submitter = sent[j].of.submitter)
        => sent[i].doc_id = sent[j].doc_id

\* Two PUT requests for the same (ioc_hash, submitter), sent at different
\* times from records of different threat types, with one document id.
C18_Witness ==
    \E i, j \in 1..Len(sent) :
        /\ sent[i].of.ioc_hash = Some("ab")
        /\ sent[j].of.ioc_hash = Some("ab")
        /\ sent[i].of.submitter = sent[j].of.submitter
        /\ sent[i].of.threat_type # sent[j].of.threat_type
        /\ sent[i].time # sent[j].time
        /\ sent[i].doc_id = sent[j].doc_id

(***************************************************************************)
(* C20 -- generate_threat_intelligence called without a severity returns a *)
(* record whose threat_type is in THREAT_TYPES when no threat type was     *)
(* supplied, whose severity is in 1..10, whose confidence_score is in      *)
(* 1..100, whose ioc_hash has length 32 and whose expiration_hours is      *)
(* greater than 0, for every threat type and every random choice.          *)
(***************************************************************************)
C20_GeneratedRecord ==
    (generated.made /\ generated.args.severity = Absent)
    => /\ generated.args.threat_type = Absent
            => generated.record.threat_type \in THREAT_TYPES
       /\ generated.record.severity \in 1..10
       /\ generated.record.confidence_score \in 1..100
       /\ len(generated.record.ioc_hash) = 32
       /\ generated.record.expiration_hours > 0

\* A record generated without arguments: an APT of severity 10 and
\* confidence 95 that expires in a week.
C20_Witness ==
    /\ generated.made
    /\ generated.args.severity = Absent
    /\ generated.args.threat_type = Absent
    /\ generated.record.threat_type = "apt"
    /\ generated.record.severity = 10
    /\ generated.record.confidence_score = 95
    /\ generated.record.expiration_hours = 168

C21_TenPerSetup ==
    tester.constructed
    => /\ Len(tester.participants) = NumParticipants * tester.setups
       /\ tester.config = tester.with

(***************************************************************************)
(* C22 -- Same thresholds in every adapter: the requests the adapters      *)
(* build from one and the same record carry the same severity label        *)
(* (Splunk, Sentinel, Elastic) and the same confidence label (Splunk,      *)
(* Elastic): the label _map_severity gives the record's severity, 1 when   *)
(* the record has none, and the label _map_confidence gives its confidence *)
(* score, 0 when it has none.                                              *)
(***************************************************************************)
ConfidenceAdapters == {"SplunkConnector", "ElasticConnector"}

C22_SameThresholds ==
    \A i, j \in 1..Len(sent) :
        sent[i].of = sent[j].of
        => /\ (sent[i].adapter \in LabelAdapters /\ sent[j].adapter \in LabelAdapters)
                => /\ sent[i].severity = sent[j].severity
                   /\ sent[i].severity =
                        _map_severity(IF sent[i].of.severity = Absent THEN 1
                                      ELSE sent[i].of.severity[1])
           /\ (sent[i].adapter \in ConfidenceAdapters /\ sent[j].adapter \in ConfidenceAdapters)
                => /\ sent[i].confidence = sent[j].confidence
                   /\ sent[i].confidence =
                        _map_confidence(IF sent[i].of.confidence_score = Absent THEN 0
                                        ELSE sent[i].of.confidence_score[1])

\* One record of severity 6 without a confidence score, pushed by the
\* Splunk, Sentinel and Elastic adapters: high three times, low twice.
C22_Witness ==
    \E i, j, k \in 1..Len(sent) :
        /\ sent[i].adapter = "SplunkConnector"
        /\ sent[j].adapter = "SentinelConnector"
        /\ sent[k].adapter = "ElasticConnector"
        /\ sent[i].of.severity = Some(6)
        /\ sent[i].of.confidence_score = Absent
        /\ sent[i].severity = "high" /\ sent[j].severity = "high" /\ sent[k].severity = "high"
        /\ sent[i].confidence = "low" /\ sent[k].confidence = "low"

(***************************************************************************)
(* C23 -- QRadar numeric fields: the emitted severity is the record's      *)
(* severity clamped to 1..10 (1 when the record has none); for a           *)
(* confidence score of 0..100 the emitted credibility is the score's tens  *)
(* (10 for 100) and lies in 0..10; the emitted relevance is 10 for a       *)
(* verified record and 5 otherwise.                                        *)
(***************************************************************************)
C23_QRadarRanges ==
    \A i \in 1..Len(sent) :
        LET r == sent[i]
            s == get(r.of.severity, 1)
            c == get(r.of.confidence_score, 0)
        IN  r.adapter = "QRadarConnector"
            => /\ r.severity \in 1..10
               /\ s < 1 => r.severity = 1
               /\ s \in 1..10 => r.severity = s
               /\ s > 10 => r.severity = 10
               /\ c \in 0..100
                    => /\ r.credibility \in 0..10
                       /\ r.credibility = Min(10, c \div 10)
                       /\ 10 * r.credibility <= c
                       /\ c < 100 => c < 10 * r.credibility + 10
               /\ r.relevance = IF r.of.is_verified = Some(TRUE) THEN 10 ELSE 5

\* A QRadar request for an unverified record of severity 11 and
\* confidence score 100: severity 10, credibility 10, relevance 5.
C23_Witness ==
    \E i \in 1..Len(sent) :
        /\ sent[i].adapter = "QRadarConnector"
        /\ sent[i].of.severity = Some(MaxSeverity)
        /\ sent[i].of.confidence_score = Some(100)
        /\ sent[i].of.is_verified = Absent
        /\ sent[i].severity = 10
        /\ sent[i].credibility = 10
        /\ sent[i].relevance = 5

C25_PrivateCopy ==
    \A c \in CallIds :
        LET call == calls[c]
        IN  (Ended(call) /\ truthy(call.target_siems))
            => /\ call.pc = "returned"
               /\ result_keys(call) = call.registered \cap elems(call.target_siems.names)
               /\ Len(call.results) = Len(call.target_connectors)
               /\ Len(call.tasks) = Len(call.target_connectors)
               /\ \A k \in 1..Len(call.results) :
                    /\ call.results[k].name = call.target_connectors[k].name
                    /\ call.tasks[k].name = call.target_connectors[k].name
                    /\ call.tasks[k].connector = call.target_connectors[k].connector
                    /\ call.results[k].ok = compiled(call.tasks[k].ran)

\* A returned broadcast with targets, one of its targets removed from the
\* registry and another bound to a different connector since the call.
C25_Witness ==
    \E c \in CallIds :
        LET call == calls[c]
        IN  /\ call.pc = "returned"
            /\ truthy(call.target_siems)
            /\ Len(call.results) = 2
            /\ \E k \in 1..2 : call.results[k].name \notin keys(connectors)
            /\ \E k \in 1..2 :
                 \E i \in 1..Len(connectors) :
                    /\ connectors[i].name = call.results[k].name
                    /\ connectors[i].connector # call.tasks[k].connector

(***************************************************************************)
(* C26 -- Two broadcasts at once: when two activations of                  *)
(* broadcast_intelligence are in flight together on one orchestrator whose *)
(* registry is not mutated, each returns (does not raise) a map whose keys *)
(* are exactly the targets it resolved on entry, each entry the outcome of *)
(* the push this activation launched for that key.                         *)
(***************************************************************************)
C26_TwoCalls ==
    \A c \in TwoCallIds :
        LET call == calls[c]
        IN  Ended(call)
            => /\ call.pc = "returned"
               /\ result_keys(call) = Targeted(call)
               /\ Len(call.results) = Len(call.tasks)
               /\ \A k \in 1..Len(call.results) :
                    /\ call.results[k].name = call.tasks[k].name
                    /\ call.results[k].ok = compiled(call.tasks[k].ran)

\* Both activations have returned, the second entered while the first was
\* suspended, with different outcomes under one key.
C26_Witness ==
    /\ calls["main"].pc = "returned"
    /\ calls["second"].pc = "returned"
    /\ Len(calls["main"].results) = 2
    /\ \E n \in result_keys(calls["main"]) \cap result_keys(calls["second"]) :
          result_of(calls["main"], n) # result_of(calls["second"], n)

(***************************************************************************)
(* C27 -- Probes one at a time: while test_all_connections runs, the probe *)
(* in flight, if any, is that of the first connector in registry order     *)
(* without a stored result (every earlier probe has returned or raised),   *)
(* no other probe can start before it has ended, and the stored results    *)
(* follow the registry's iteration order.                                  *)
(***************************************************************************)
C27_OneProbeAtATime ==
    probes.pc # "idle"
    => /\ probes.current # 0
            => /\ probes.current = Len(probes.results) + 1
               /\ ~ENABLED TestAllStart
       /\ Len(probes.results) <= Len(connectors)
       /\ \A k \in 1..Len(probes.results) :
            probes.results[k].name = connectors[k].name

\* The probe of the second connector is in flight, the first, found down,
\* has its result stored.
C27_Witness ==
    /\ probes.pc = "loop"
    /\ probes.current = 2
    /\ Len(probes.results) = 1
    /\ ~probes.results[1].ok

====
